---- MODULE Spec2Model ----
(***************************************************************************)
(* A model of the validator framework of feature_calculator/validator.py:  *)
(* NumericValidator, StringValidator, ListValidator and DictValidator, the *)
(* Python values they are applied to, and the last-error field each        *)
(* instance keeps; of the calculators of calculator.py and main.py and     *)
(* the shell of main.py; of the global Config instance of config.py; and   *)
(* of retry_on_exception of utils.py.  Each has its own specification.     *)
(***************************************************************************)
EXTENDS Integers, Sequences, FiniteSets, TLC

(***************************************************************************)
(* Bounds of the model.                                                    *)
(***************************************************************************)
\* numeric inputs and numeric bounds range over 0..MaxNum
MaxNum == 3
\* list inputs have at most MaxLen elements
MaxLen == 3
\* get_error_message is called at most MaxReads times in a row on an instance
MaxReads == 2
\* the lists handed to validate by concurrent threads have at most
\* MaxThreadLen elements
MaxThreadLen == 2
\* the operands of the calculators are the whole numbers -1..MaxOperand
MaxOperand == 2
\* the most Config instances a configuration run creates
MaxConfigs == 2
\* the most get_config calls between two reset_config calls
MaxCalls == 3
\* the largest max_retries a retry run is given
MaxRetries == 3

(***************************************************************************)
(* Python values.  A value is a record whose field t is the name of its    *)
(* Python type (type(v).__name__).                                         *)
(*   int    n * 10**e   (e = 0 for the small integers)                     *)
(*   float  k = "fin" with the whole value x, or k = "nan", "inf", "-inf"  *)
(*   str    the text s                                                     *)
(*   list   the sequence items                                             *)
(*   dict   the sequence kv of <<key, value>> pairs, in insertion order    *)
(***************************************************************************)
NoneV == [t |-> "NoneType"]
BoolV(b) == [t |-> "bool", b |-> b]
IntV(n) == [t |-> "int", n |-> n, e |-> 0]
\* 10**400: a Python int (arbitrary precision) beyond the range of a double
BigInt == [t |-> "int", n |-> 1, e |-> 400]
FloatV(x) == [t |-> "float", k |-> "fin", x |-> x]
NaN == [t |-> "float", k |-> "nan", x |-> 0]
Inf == [t |-> "float", k |-> "inf", x |-> 0]
NegInf == [t |-> "float", k |-> "-inf", x |-> 0]
StrV(s) == [t |-> "str", s |-> s]
ListV(items) == [t |-> "list", items |-> items]
DictV(kv) == [t |-> "dict", kv |-> kv]

\* key in data
HasKey(data, key) == \E j \in 1..Len(data.kv) : data.kv[j][1] = key
\* data[key]
Lookup(data, key) ==
    data.kv[CHOOSE j \in 1..Len(data.kv) : data.kv[j][1] = key][2]

(***************************************************************************)
(* str() and repr(), as the f-strings of the messages apply them.          *)
(***************************************************************************)
RECURSIVE Zeros(_)
Zeros(k) == IF k = 0 THEN "" ELSE "0" \o Zeros(k - 1)

FloatStr(f) ==
    CASE f.k = "nan" -> "nan"
      [] f.k = "inf" -> "inf"
      [] f.k = "-inf" -> "-inf"
      [] OTHER -> ToString(f.x) \o ".0"

RECURSIVE PyRepr(_)
RECURSIVE ReprItems(_, _)
RECURSIVE ReprPairs(_, _)
PyRepr(v) ==
    CASE v.t = "NoneType" -> "None"
      [] v.t = "bool" -> IF v.b THEN "True" ELSE "False"
      [] v.t = "int" -> ToString(v.n) \o Zeros(v.e)
      [] v.t = "float" -> FloatStr(v)
      [] v.t = "str" -> "'" \o v.s \o "'"
      [] v.t = "list" -> "[" \o ReprItems(v.items, 1) \o "]"
      [] v.t = "dict" -> "{" \o ReprPairs(v.kv, 1) \o "}"
ReprItems(items, j) ==
    IF j > Len(items) THEN ""
    ELSE PyRepr(items[j])
         \o (IF j < Len(items) THEN ", " ELSE "")
         \o ReprItems(items, j + 1)
ReprPairs(kv, j) ==
    IF j > Len(kv) THEN ""
    ELSE "'" \o kv[j][1] \o "': " \o PyRepr(kv[j][2])
         \o (IF j < Len(kv) THEN ", " ELSE "")
         \o ReprPairs(kv, j + 1)

PyStr(v) == IF v.t = "str" THEN v.s ELSE PyRepr(v)

\* sub in text
Contains(text, sub) ==
    \E j \in 1..(Len(text) - Len(sub) + 1) :
        SubSeq(text, j, j + Len(sub) - 1) = sub
\* text.endswith(sub)
EndsWith(text, sub) ==
    /\ Len(sub) <= Len(text)
    /\ SubSeq(text, Len(text) - Len(sub) + 1, Len(text)) = sub

(***************************************************************************)
(* float(data).  The result is [exc |-> "", f |-> the float] or names the  *)
(* exception float() raises.  Text is parsed as float() parses it, for the *)
(* lower-case texts over the model's alphabet (no '.', 'e' or '_'):        *)
(* surrounding blanks are stripped, then an optional sign, then "nan",     *)
(* "inf" or one or more digits.                                            *)
(***************************************************************************)
Digits == {"0", "1", "2", "3", "4", "5", "6", "7", "8", "9"}
DigitVal(c) ==
    CASE c = "0" -> 0 [] c = "1" -> 1 [] c = "2" -> 2 [] c = "3" -> 3
      [] c = "4" -> 4 [] c = "5" -> 5 [] c = "6" -> 6 [] c = "7" -> 7
      [] c = "8" -> 8 [] c = "9" -> 9

RECURSIVE LStrip(_)
LStrip(s) ==
    IF Len(s) > 0 /\ SubSeq(s, 1, 1) = " "
    THEN LStrip(SubSeq(s, 2, Len(s))) ELSE s
RECURSIVE RStrip(_)
RStrip(s) ==
    IF Len(s) > 0 /\ SubSeq(s, Len(s), Len(s)) = " "
    THEN RStrip(SubSeq(s, 1, Len(s) - 1)) ELSE s
Strip(s) == RStrip(LStrip(s))

AllDigits(s) ==
    /\ Len(s) > 0
    /\ \A j \in 1..Len(s) : SubSeq(s, j, j) \in Digits
RECURSIVE DigitsVal(_, _)
DigitsVal(s, acc) ==
    IF Len(s) = 0 THEN acc
    ELSE DigitsVal(SubSeq(s, 2, Len(s)), 10 * acc + DigitVal(SubSeq(s, 1, 1)))

Raises(exc) == [exc |-> exc, f |-> NaN]
Float(f) == [exc |-> "", f |-> f]

ParseFloat(s) ==
    LET body == Strip(s)
        signed == Len(body) > 0 /\ SubSeq(body, 1, 1) \in {"-", "+"}
        neg == signed /\ SubSeq(body, 1, 1) = "-"
        mag == IF signed THEN SubSeq(body, 2, Len(body)) ELSE body
    IN  CASE mag = "nan" -> Float(NaN)
          [] mag = "inf" -> Float(IF neg THEN NegInf ELSE Inf)
          [] AllDigits(mag) ->
                Float(FloatV(IF neg THEN 0 - DigitsVal(mag, 0)
                                    ELSE DigitsVal(mag, 0)))
          [] OTHER -> Raises("ValueError")

\* an int converts unless it exceeds the largest double (about 1.8 * 10**308)
ToFloat(data) ==
    CASE data.t = "float" -> Float(data)
      [] data.t = "bool" -> Float(FloatV(IF data.b THEN 1 ELSE 0))
      [] data.t = "int" ->
            IF data.n # 0 /\ data.e > 308 THEN Raises("OverflowError")
            ELSE Float(FloatV(data.n * 10^data.e))
      [] data.t = "str" -> ParseFloat(data.s)
      [] OTHER -> Raises("TypeError")

\* value < bound and value > bound on doubles: every comparison with nan is
\* false, -inf is below and inf above every finite number
FloatLt(a, b) ==
    CASE a.k = "nan" \/ b.k = "nan" -> FALSE
      [] a.k = "inf" \/ b.k = "-inf" -> FALSE
      [] a.k = "-inf" \/ b.k = "inf" -> TRUE
      [] OTHER -> a.x < b.x
FloatGt(a, b) == FloatLt(b, a)

(***************************************************************************)
(* Validator instances.  The heap is the sequence of the instances in the  *)
(* order of their construction; a composite refers to a nested validator   *)
(* by Ref(i), its position in the heap (a shared reference, not a copy).   *)
(***************************************************************************)
Ref(i) == [t |-> "ref", id |-> i]

\* NumericValidator.__init__
NumericValidator(min_value, max_value, allow_none) ==
    [kind |-> "NumericValidator", min_value |-> min_value,
     max_value |-> max_value, allow_none |-> allow_none]
\* StringValidator.__init__
StringValidator(min_length, max_length, allowed_values, allow_none) ==
    [kind |-> "StringValidator", min_length |-> min_length,
     max_length |-> max_length, allowed_values |-> allowed_values,
     allow_none |-> allow_none]
\* ListValidator.__init__
ListValidator(item_validator, min_length, max_length) ==
    [kind |-> "ListValidator", item_validator |-> item_validator,
     min_length |-> min_length, max_length |-> max_length]
\* DictValidator.__init__: required_keys or [], validators or {} (the
\* mapping as the sequence of its <<key, Ref>> items, in iteration order)
DictValidator(required_keys, validators) ==
    [kind |-> "DictValidator", required_keys |-> required_keys,
     validators |-> validators]

VARIABLES
    heap,     \* the validator instances: heap[i] is the configuration of i
    err,      \* err[i]: the _error_message field of instance i
    called,   \* called[i]: how the latest validate call on i ended
    last,     \* the latest call made by the caller, with what it returned
    pc,       \* pc[t]: the position of thread t in its calls
    frame,    \* frame[t]: the local variables of thread t
    program,      \* what a calculator run drives: a Calculator or the shell
    last_result,  \* the last_result field of the Calculator
    running,      \* the shell's loop has not exited
    answer,       \* the latest calculator call or shell line, and its outcome
    _config,      \* the module global _config of config.py
    configs,      \* the Config instances created so far, in order
    environ,      \* os.environ.get("ENVIRONMENT")
    session,      \* the get_config calls since the latest reset_config
    retry         \* a call of retry_on_exception: its arguments and locals

\* the validator instances and their caller
validatorVars == <<heap, err, called, last>>
\* the threads of control, which only the concurrent runs have
threadVars == <<pc, frame>>
\* the calculators, which only the calculator runs have
calcVars == <<program, last_result, running, answer>>
\* the global configuration, which only the configuration runs have
configVars == <<_config, configs, environ, session>>
\* the call of retry_on_exception, which only the retry runs have
retryVars == <<retry>>
\* what the validator and the calculator runs leave alone
utilVars == <<configVars, retryVars>>
vars == <<validatorVars, threadVars, calcVars, utilVars>>

NoThreads == pc = <<>> /\ frame = <<>>
NoCalculator ==
    /\ program = ""
    /\ last_result = NoneV
    /\ running = FALSE
    /\ answer = <<>>
NoConfig ==
    /\ _config = NoneV
    /\ configs = <<>>
    /\ environ = NoneV
    /\ session = <<>>
NoRetry == retry = <<>>

(***************************************************************************)
(* validate.  A call runs on st = [err, called, log], the last-error       *)
(* fields, the outcome of each instance's latest call and the log of the   *)
(* validate calls entered so far, and yields the same with ret, what the   *)
(* call did: "True", "False", or "raised" when an exception leaves it.     *)
(***************************************************************************)
Enter(i, data, st) ==
    [st EXCEPT !.log = Append(@, [v |-> i, data |-> data])]
\* a message that adds to the one held instead of replacing it
ReturnCumulative(i, st, ret, msg) ==
    [ret |-> ret,
     err |-> [st.err EXCEPT ![i] = @ \o msg],
     called |-> [st.called EXCEPT ![i] = ret],
     log |-> st.log]
\* self._error_message = msg; return ret
Return(i, st, ret, msg) ==
    [ret |-> ret,
     err |-> [st.err EXCEPT ![i] = msg],
     called |-> [st.called EXCEPT ![i] = ret],
     log |-> st.log]
\* an exception leaves the call: no field of instance i is assigned
Raise(i, st) ==
    [ret |-> "raised",
     err |-> st.err,
     called |-> [st.called EXCEPT ![i] = "raised"],
     log |-> st.log]

\* if data is None: ...
NumericNoneStrict(i, st) == Return(i, st, "False", "Value cannot be None")
NumericNone(i, st) ==
    IF heap[i].allow_none
    THEN Return(i, st, "True", "")
    ELSE Return(i, st, "False", "Value cannot be None")

\* self.min_value is not None and value < self.min_value
NumericBelowMin(self, value) ==
    self.min_value # NoneV /\ FloatLt(value, ToFloat(self.min_value).f)
\* self.max_value is not None and value > self.max_value
NumericAboveMax(self, value) ==
    self.max_value # NoneV /\ FloatGt(value, ToFloat(self.max_value).f)

NumericValidate(i, data, st) ==
    LET self == heap[i]
        c == ToFloat(data)
        value == c.f
    IN  IF data = NoneV
        THEN NumericNone(i, st)
        ELSE IF c.exc \in {"ValueError", "TypeError"}
        THEN Return(i, st, "False",
                    "Value '" \o PyStr(data) \o "' is not numeric")
        ELSE IF c.exc # ""
        THEN Raise(i, st)
        ELSE IF NumericBelowMin(self, value)
        THEN Return(i, st, "False",
                    "Value " \o FloatStr(value) \o " is less than minimum "
                    \o PyStr(self.min_value))
        ELSE IF NumericAboveMax(self, value)
        THEN Return(i, st, "False",
                    "Value " \o FloatStr(value)
                    \o " is greater than maximum " \o PyStr(self.max_value))
        ELSE Return(i, st, "True", "")

\* if data is None: ...
StringNone(i, st) ==
    IF heap[i].allow_none
    THEN Return(i, st, "True", "")
    ELSE Return(i, st, "False", "Value cannot be None")

\* len(data) < self.min_length
StringTooShort(self, data) == Len(data.s) < self.min_length
\* self.max_length is not None and len(data) > self.max_length
StringTooLongOffByOne(self, data) ==
    self.max_length # NoneV /\ Len(data.s) >= self.max_length.n
StringTooLong(self, data) ==
    self.max_length # NoneV /\ Len(data.s) > self.max_length.n
\* self.allowed_values is not None and data not in self.allowed_values
StringNotAllowed(self, data) ==
    /\ self.allowed_values # NoneV
    /\ \A j \in 1..Len(self.allowed_values.items) :
           self.allowed_values.items[j] # data

StringValidate(i, data, st) ==
    LET self == heap[i]
    IN  IF data = NoneV
        THEN StringNone(i, st)
        ELSE IF data.t # "str"
        THEN Return(i, st, "False", "Value must be string, got " \o data.t)
        ELSE IF StringTooShort(self, data)
        THEN Return(i, st, "False",
                    "String length " \o ToString(Len(data.s))
                    \o " is less than minimum "
                    \o ToString(self.min_length))
        ELSE IF StringTooLong(self, data)
        THEN Return(i, st, "False",
                    "String length " \o ToString(Len(data.s))
                    \o " is greater than maximum "
                    \o PyStr(self.max_length))
        ELSE IF StringNotAllowed(self, data)
        THEN Return(i, st, "False",
                    "Value '" \o data.s \o "' not in allowed values: "
                    \o PyRepr(self.allowed_values))
        ELSE Return(i, st, "True", "")

RECURSIVE Validate(_, _, _)
RECURSIVE ListItems(_, _, _, _)
RECURSIVE DictFields(_, _, _, _)

\* the loop over the elements with each element validated a second time
\* before its result is looked at
ListItemsTwice(i, data, j, st) ==
    LET item == heap[i].item_validator.id
        once == Validate(item, data.items[j], st)
        r == Validate(item, data.items[j],
                      [err |-> once.err, called |-> once.called,
                       log |-> once.log])
    IN  IF j > Len(data.items)
        THEN Return(i, st, "True", "")
        ELSE IF r.ret = "raised"
        THEN Raise(i, r)
        ELSE IF r.ret = "False"
        THEN Return(i, r, "False",
                    "Invalid item at index " \o ToString(j - 1) \o ": "
                    \o r.err[item])
        ELSE ListItems(i, data, j + 1, r)

\* for i, item in enumerate(data), from the element at position j (1-based)
ListItems(i, data, j, st) ==
    LET item == heap[i].item_validator.id
        r == Validate(item, data.items[j], st)
    IN  IF j > Len(data.items)
        THEN Return(i, st, "True", "")
        ELSE IF r.ret = "raised"
        THEN Raise(i, r)
        ELSE IF r.ret = "False"
        THEN Return(i, r, "False",
                    "Invalid item at index " \o ToString(j - 1) \o ": "
                    \o r.err[item])
        ELSE ListItems(i, data, j + 1, r)

\* len(data) < self.min_length
ListTooShort(self, data) == Len(data.items) < self.min_length
\* self.max_length is not None and len(data) > self.max_length
ListTooLongOffByOne(self, data) ==
    self.max_length # NoneV /\ Len(data.items) >= self.max_length.n
ListTooLong(self, data) ==
    self.max_length # NoneV /\ Len(data.items) > self.max_length.n

\* ListValidator.validate with the length read before the type is checked:
\* len() of a text is defined, so a text too short is reported as a list
ListValidateLengthFirst(i, data, st) ==
    LET self == heap[i]
    IN  IF data.t = "str" /\ Len(data.s) < self.min_length
        THEN Return(i, st, "False",
                    "List length " \o ToString(Len(data.s))
                    \o " is less than minimum "
                    \o ToString(self.min_length))
        ELSE IF data.t # "list"
        THEN Return(i, st, "False", "Value must be list, got " \o data.t)
        ELSE IF ListTooShort(self, data)
        THEN Return(i, st, "False",
                    "List length " \o ToString(Len(data.items))
                    \o " is less than minimum "
                    \o ToString(self.min_length))
        ELSE IF ListTooLong(self, data)
        THEN Return(i, st, "False",
                    "List length " \o ToString(Len(data.items))
                    \o " is greater than maximum "
                    \o PyStr(self.max_length))
        ELSE IF self.item_validator # NoneV
        THEN ListItems(i, data, 1, st)
        ELSE Return(i, st, "True", "")

ListValidate(i, data, st) ==
    LET self == heap[i]
    IN  IF data.t # "list"
        THEN Return(i, st, "False", "Value must be list, got " \o data.t)
        ELSE IF ListTooShort(self, data)
        THEN Return(i, st, "False",
                    "List length " \o ToString(Len(data.items))
                    \o " is less than minimum "
                    \o ToString(self.min_length))
        ELSE IF ListTooLong(self, data)
        THEN Return(i, st, "False",
                    "List length " \o ToString(Len(data.items))
                    \o " is greater than maximum "
                    \o PyStr(self.max_length))
        ELSE IF self.item_validator # NoneV
        THEN ListItems(i, data, 1, st)
        ELSE Return(i, st, "True", "")

\* the loop over the fields, each validated by a copy of its validator: the
\* call does not show on the validator that the schema was built with
DictFieldsOnCopies(i, data, j, st) ==
    LET key == heap[i].validators[j][1]
        validator == heap[i].validators[j][2].id
        r == Validate(validator, Lookup(data, key), st)
        kept == [st EXCEPT !.log = r.log]
    IN  IF j > Len(heap[i].validators)
        THEN Return(i, st, "True", "")
        ELSE IF ~HasKey(data, key)
        THEN DictFields(i, data, j + 1, st)
        ELSE IF r.ret = "raised"
        THEN Raise(i, kept)
        ELSE IF r.ret = "False"
        THEN Return(i, kept, "False",
                    "Invalid value for key '" \o key \o "': "
                    \o r.err[validator])
        ELSE DictFields(i, data, j + 1, kept)

\* for key, validator in self.validators.items(), from the j-th item
DictFields(i, data, j, st) ==
    LET key == heap[i].validators[j][1]
        validator == heap[i].validators[j][2].id
        r == Validate(validator, Lookup(data, key), st)
    IN  IF j > Len(heap[i].validators)
        THEN Return(i, st, "True", "")
        ELSE IF ~HasKey(data, key)
        THEN DictFields(i, data, j + 1, st)
        ELSE IF r.ret = "raised"
        THEN Raise(i, r)
        ELSE IF r.ret = "False"
        THEN Return(i, r, "False",
                    "Invalid value for key '" \o key \o "': "
                    \o r.err[validator])
        ELSE DictFields(i, data, j + 1, r)

\* the required keys read from the last to the first
MissingKeyReversed(self, data) ==
    LET missing == {j \in 1..Len(self.required_keys) :
                        ~HasKey(data, self.required_keys[j])}
    IN  IF missing = {} THEN 0
        ELSE CHOOSE j \in missing : \A m \in missing : j >= m
\* for key in self.required_keys: if key not in data: the position of the
\* first required key that data lacks, 0 when it has them all
MissingKey(self, data) ==
    LET missing == {j \in 1..Len(self.required_keys) :
                        ~HasKey(data, self.required_keys[j])}
    IN  IF missing = {} THEN 0
        ELSE CHOOSE j \in missing : \A m \in missing : j <= m

\* a closed schema: a key that is in neither required_keys nor validators
\* is rejected
DictValidateClosed(i, data, st) ==
    LET self == heap[i]
        j == MissingKey(self, data)
        known == {self.required_keys[m] : m \in 1..Len(self.required_keys)}
                 \cup {self.validators[m][1] : m \in 1..Len(self.validators)}
    IN  IF data.t # "dict"
        THEN Return(i, st, "False",
                    "Value must be dictionary, got " \o data.t)
        ELSE IF \E m \in 1..Len(data.kv) : data.kv[m][1] \notin known
        THEN Return(i, st, "False", "Unexpected key in dictionary")
        ELSE IF j # 0
        THEN Return(i, st, "False",
                    "Required key '" \o self.required_keys[j]
                    \o "' missing from dictionary")
        ELSE DictFields(i, data, 1, st)

\* the fields validated before the required keys are looked for
DictValidateFieldsFirst(i, data, st) ==
    LET self == heap[i]
        j == MissingKey(self, data)
        r == DictFields(i, data, 1, st)
    IN  IF data.t # "dict"
        THEN Return(i, st, "False",
                    "Value must be dictionary, got " \o data.t)
        ELSE IF r.ret # "True"
        THEN r
        ELSE IF j # 0
        THEN Return(i, r, "False",
                    "Required key '" \o self.required_keys[j]
                    \o "' missing from dictionary")
        ELSE r

DictValidate(i, data, st) ==
    LET self == heap[i]
        j == MissingKey(self, data)
    IN  IF data.t # "dict"
        THEN Return(i, st, "False",
                    "Value must be dictionary, got " \o data.t)
        ELSE IF j # 0
        THEN Return(i, st, "False",
                    "Required key '" \o self.required_keys[j]
                    \o "' missing from dictionary")
        ELSE DictFields(i, data, 1, st)

\* validator.validate(data): the dispatch on the class of instance i
Validate(i, data, st) ==
    LET kind == heap[i].kind
        st1 == Enter(i, data, st)
    IN  CASE kind = "NumericValidator" -> NumericValidate(i, data, st1)
          [] kind = "StringValidator" -> StringValidate(i, data, st1)
          [] kind = "ListValidator" -> ListValidate(i, data, st1)
          [] kind = "DictValidator" -> DictValidate(i, data, st1)

(***************************************************************************)
(* The instances a run works on, and the values handed to validate.        *)
(***************************************************************************)
Nums == 0..MaxNum
NumTexts ==
    {ToString(n) : n \in Nums}
    \cup {" " \o ToString(MaxNum) \o " ", "-1", "nan", "inf", "-inf"}
WordTexts == {"", "x", "z", "xy", "xyz"}
Scalars ==
    {NoneV, BoolV(TRUE), BigInt, NaN, Inf, FloatV(MaxNum)}
    \cup {IntV(n) : n \in Nums}
    \cup {StrV(s) : s \in NumTexts \cup WordTexts}

\* the elements of list inputs: inside, above and beyond the item bounds
Elems == {IntV(1), IntV(MaxNum), BigInt}
RECURSIVE SeqsUpTo(_, _)
SeqsUpTo(S, n) ==
    IF n = 0 THEN {<<>>}
    ELSE LET shorter == SeqsUpTo(S, n - 1)
         IN  shorter \cup {Append(q, x) : q \in shorter, x \in S}
Lists == {ListV(q) : q \in SeqsUpTo(Elems, MaxLen)}

\* the fields of dict inputs; the key "c" is in no schema
Field(key, S) == {<<>>} \cup {<< <<key, x>> >> : x \in S}
Dicts ==
    {DictV(a \o b \o c) : a \in Field("a", {IntV(1), StrV("x"), BigInt}),
                          b \in Field("b", {IntV(1), StrV("x")}),
                          c \in Field("c", {IntV(1)})}

Structured == {ListV(<<>>), ListV(<<IntV(1)>>), DictV(<<>>)}
FewScalars == {NoneV, IntV(1)}

Optional(S) == {NoneV} \cup S

Bounds == {IntV(n) : n \in 1..(MaxNum - 1)}
NumericHeaps ==
    {<<NumericValidator(lo, hi, an)>> :
        lo \in Optional(Bounds), hi \in Optional(Bounds), an \in BOOLEAN}
StringHeaps ==
    {<<StringValidator(lo, hi, av, an)>> :
        lo \in 0..2,
        hi \in Optional({IntV(1), IntV(2)}),
        av \in Optional({ListV(<<StrV("x"), StrV("xy")>>)}),
        an \in BOOLEAN}
ListHeaps ==
    {<<NumericValidator(IntV(1), IntV(MaxNum - 1), FALSE),
       ListValidator(item, lo, hi)>> :
        item \in Optional({Ref(1)}),
        lo \in {0, 1},
        hi \in Optional({IntV(MaxLen - 1)})}
Schema(keys) ==
    [j \in 1..Len(keys) |->
        <<keys[j], IF keys[j] = "a" THEN Ref(1) ELSE Ref(2)>>]
DictHeaps ==
    {<<NumericValidator(IntV(1), IntV(MaxNum - 1), FALSE),
       StringValidator(1, NoneV, NoneV, TRUE),
       DictValidator(rk[1], Schema(rk[2]))>> :
        rk \in {<< <<>>, <<>> >>,
                 << <<>>, <<"a", "b">> >>,
                 << <<>>, <<"b", "a">> >>,
                 << <<"a", "b">>, <<>> >>,
                 << <<"b", "a">>, <<"a", "b">> >>,
                 << <<"a">>, <<"b", "a">> >>}}
Heaps == NumericHeaps \cup StringHeaps \cup ListHeaps \cup DictHeaps

Ids == 1..Len(heap)

\* the values a run hands to instance i
Inputs(i) ==
    CASE Len(heap) = 1 -> Scalars \cup Structured
      [] heap[i].kind = "ListValidator" ->
            Lists \cup {NoneV, StrV(""), DictV(<<>>)}
      [] heap[i].kind = "DictValidator" ->
            Dicts \cup {NoneV, StrV("x"), ListV(<<>>)}
      [] OTHER -> FewScalars

(***************************************************************************)
(* The state machine: the caller constructs the instances, then calls      *)
(* validate and get_error_message on any of them, in any order.            *)
(***************************************************************************)
Init ==
    /\ heap \in Heaps
    /\ err = [i \in 1..Len(heap) |-> ""]
    /\ called = [i \in 1..Len(heap) |-> "none"]
    /\ last = [op |-> "new", v |-> 0, data |-> NoneV, ret |-> "",
               msg |-> "", log |-> <<>>, reads |-> 0]
    /\ NoThreads
    /\ NoCalculator
    /\ NoConfig
    /\ NoRetry

\* ok = v.validate(data), with the bounds of a NumericValidator kept as the
\* floats they are compared as
ValidateCallCaching(i, data) ==
    LET r == Validate(i, data, [err |-> err, called |-> called, log |-> <<>>])
        cached(bound) == IF bound = NoneV THEN bound ELSE ToFloat(bound).f
    IN  /\ err' = r.err
        /\ called' = r.called
        /\ last' = [op |-> "validate", v |-> i, data |-> data,
                    ret |-> r.ret, msg |-> "", log |-> r.log, reads |-> 0]
        /\ heap' = IF heap[i].kind = "NumericValidator"
                   THEN [heap EXCEPT ![i].min_value = cached(@),
                                     ![i].max_value = cached(@)]
                   ELSE heap
        /\ UNCHANGED <<threadVars, calcVars, utilVars>>
\* ok = v.validate(data)
ValidateCall(i, data) ==
    LET r == Validate(i, data, [err |-> err, called |-> called, log |-> <<>>])
    IN  /\ err' = r.err
        /\ called' = r.called
        /\ last' = [op |-> "validate", v |-> i, data |-> data,
                    ret |-> r.ret, msg |-> "", log |-> r.log, reads |-> 0]
        /\ UNCHANGED <<heap, threadVars, calcVars, utilVars>>

\* the calls of get_error_message made in a row on instance i
Reads(i) ==
    IF last.op = "get_error_message" /\ last.v = i THEN last.reads ELSE 0

\* msg = v.get_error_message(), with a message that is handed out once: the
\* field is cleared by the read
GetErrorMessageClearing(i) ==
    /\ Reads(i) < MaxReads
    /\ last' = [op |-> "get_error_message", v |-> i, data |-> NoneV,
                ret |-> "", msg |-> err[i], log |-> <<>>,
                reads |-> Reads(i) + 1]
    /\ err' = [err EXCEPT ![i] = ""]
    /\ UNCHANGED <<heap, called, threadVars, calcVars, utilVars>>
\* msg = v.get_error_message()
GetErrorMessage(i) ==
    /\ Reads(i) < MaxReads
    /\ last' = [op |-> "get_error_message", v |-> i, data |-> NoneV,
                ret |-> "", msg |-> err[i], log |-> <<>>,
                reads |-> Reads(i) + 1]
    /\ UNCHANGED <<heap, err, called, threadVars, calcVars, utilVars>>

CallValidate == \E i \in Ids : \E data \in Inputs(i) : ValidateCall(i, data)
CallGetErrorMessage == \E i \in Ids : GetErrorMessage(i)

Next == CallValidate \/ CallGetErrorMessage

Spec == Init /\ [][Next]_vars

(***************************************************************************)
(* The claims.  Outcome(i, data) is validate(data) on instance i of a      *)
(* freshly constructed copy of the instances: what the call does when no   *)
(* call came before it.                                                    *)
(***************************************************************************)
Fresh ==
    [err |-> [i \in Ids |-> ""], called |-> [i \in Ids |-> "none"],
     log |-> <<>>]
Outcome(i, data) == Validate(i, data, Fresh)

Validated(kind) == last.op = "validate" /\ heap[last.v].kind = kind

\* the data of the latest call the run's last validate made on instance i
LatestIn(log, i) ==
    log[CHOOSE j \in 1..Len(log) :
            /\ log[j].v = i
            /\ \A m \in (j + 1)..Len(log) : log[m].v # i].data

\* C1: get_error_message returns "" before the first validate call on an
\* instance and whenever its latest validate call returned True, and a
\* non-empty message whenever its latest validate call returned False; that
\* message is the one the call leaves on fresh instances, so nothing of an
\* earlier call is carried over or added to it.
C1_LastErrorOfLatestCall ==
    /\ \A i \in Ids :
          /\ called[i] \in {"none", "True"} => err[i] = ""
          /\ called[i] = "False" => err[i] # ""
    /\ last.op = "get_error_message" =>
          /\ last.msg = err[last.v]
          /\ called[last.v] \in {"none", "True"} => last.msg = ""
          /\ called[last.v] = "False" => last.msg # ""
    /\ last.op = "validate" =>
          \A i \in {last.log[j].v : j \in 1..Len(last.log)} :
              called[i] \in {"True", "False"} =>
                  err[i] = Outcome(i, LatestIn(last.log, i)).err[i]

\* C1 witness: a composite's message read after a nested failure
C1_Witness ==
    /\ last.op = "get_error_message"
    /\ heap[last.v].kind = "ListValidator"
    /\ called[last.v] = "False"
    /\ called[1] = "True"
    /\ Contains(last.msg, "Invalid item at index 1")

\* C2: validate never raises: every call returns True, or returns False and
\* leaves a non-empty message to retrieve.
C2_NeverRaises ==
    last.op = "validate" =>
        \/ last.ret = "True"
        \/ last.ret = "False" /\ err[last.v] # ""

\* m <= v and v <= m as Python compares the number v with the int m
AtLeast(v, m) ==
    CASE v.t = "int" -> IF v.e = 0 THEN m <= v.n ELSE v.n > 0
      [] v.k = "fin" -> m <= v.x
      [] v.k = "inf" -> TRUE
      [] OTHER -> FALSE
AtMost(v, m) ==
    CASE v.t = "int" -> IF v.e = 0 THEN v.n <= m ELSE v.n < 0
      [] v.k = "fin" -> v.x <= m
      [] v.k = "-inf" -> TRUE
      [] OTHER -> FALSE
InRange(self, v) ==
    /\ self.min_value # NoneV => AtLeast(v, self.min_value.n)
    /\ self.max_value # NoneV => AtMost(v, self.max_value.n)

\* C3: for a number v (an int or a float) and bounds a <= b, a
\* NumericValidator's validate(v) returns True if and only if a <= v <= b,
\* a bound that is not configured leaving its side open.  (Stated of the
\* calls that return, with a bound configured.)
C3_NumericRange ==
    LET self == heap[last.v]
    IN  /\ Validated("NumericValidator")
        /\ last.data.t \in {"int", "float"}
        /\ last.ret \in {"True", "False"}
        /\ self.min_value # NoneV \/ self.max_value # NoneV
        /\ (self.min_value # NoneV /\ self.max_value # NoneV
                => self.min_value.n <= self.max_value.n)
        => (last.ret = "True" <=> InRange(self, last.data))

\* C4: on None, NumericValidator.validate and StringValidator.validate
\* return True if and only if allow_none is set, whatever bounds, lengths
\* and allowed values are configured, with an empty message on True and a
\* non-empty one on False.
C4_NoneIffAllowNone ==
    /\ last.op = "validate"
    /\ heap[last.v].kind \in {"NumericValidator", "StringValidator"}
    /\ last.data = NoneV
    => /\ last.ret \in {"True", "False"}
       /\ last.ret = "True" <=> heap[last.v].allow_none
       /\ last.ret = "True" => err[last.v] = ""
       /\ last.ret = "False" => err[last.v] # ""

\* C4 witness: None accepted by a StringValidator that constrains the
\* length and the allowed values
C4_Witness ==
    /\ Validated("StringValidator")
    /\ last.data = NoneV
    /\ last.ret = "True"
    /\ heap[last.v].min_length = 2
    /\ heap[last.v].max_length # NoneV
    /\ heap[last.v].allowed_values # NoneV

\* text that reads as a number: blanks, an optional sign, digits
Unsigned(s) ==
    LET body == Strip(s)
    IN  IF Len(body) > 0 /\ SubSeq(body, 1, 1) \in {"-", "+"}
        THEN SubSeq(body, 2, Len(body)) ELSE body
NumericLooking(s) == AllDigits(Unsigned(s))
\* the number a value stands for
NumValue(data) ==
    IF data.t # "str" THEN data
    ELSE FloatV(IF SubSeq(Strip(data.s), 1, 1) = "-"
                THEN 0 - DigitsVal(Unsigned(data.s), 0)
                ELSE DigitsVal(Unsigned(data.s), 0))
\* v < m and v > m as Python compares the number v with the int m
Below(v, m) ==
    CASE v.t = "int" -> IF v.e = 0 THEN v.n < m ELSE v.n < 0
      [] v.k = "fin" -> v.x < m
      [] v.k = "-inf" -> TRUE
      [] OTHER -> FALSE
Above(v, m) ==
    CASE v.t = "int" -> IF v.e = 0 THEN v.n > m ELSE v.n > 0
      [] v.k = "fin" -> v.x > m
      [] v.k = "inf" -> TRUE
      [] OTHER -> FALSE

\* C5: NumericValidator.validate coerces before it checks the bounds: an
\* int, a float and numeric-looking text are accepted and the call returns
\* what the comparison of their numeric value with the bounds gives;
\* non-numeric text, lists and mappings fail coercion and the call returns
\* False with a 'not numeric' message, whatever the bounds.
C5_CoercionBeforeBounds ==
    LET self == heap[last.v]
        data == last.data
        v == NumValue(data)
    IN  Validated("NumericValidator") =>
        /\ \/ data.t \in {"int", "float"}
           \/ data.t = "str" /\ NumericLooking(data.s)
           => /\ last.ret \in {"True", "False"}
              /\ last.ret = "False" <=>
                    \/ self.min_value # NoneV /\ Below(v, self.min_value.n)
                    \/ self.max_value # NoneV /\ Above(v, self.max_value.n)
              /\ ~Contains(err[last.v], "is not numeric")
        /\ \/ data.t \in {"list", "dict"}
           \/ data.t = "str" /\ data.s \in WordTexts
           => /\ last.ret = "False"
              /\ err[last.v] = "Value '" \o PyStr(data) \o "' is not numeric"

\* C6: for a text s, StringValidator.validate(s) returns True if and only if
\* min_length <= len(s), len(s) <= max_length when it is set, and s is one
\* of allowed_values when they are set.
C6_StringIff ==
    LET self == heap[last.v]
        n == Len(last.data.s)
    IN  Validated("StringValidator") /\ last.data.t = "str" =>
        (last.ret = "True" <=>
            /\ self.min_length <= n
            /\ self.max_length # NoneV => n <= self.max_length.n
            /\ self.allowed_values # NoneV =>
                  last.data \in {self.allowed_values.items[j] :
                                    j \in 1..Len(self.allowed_values.items)})

\* C6 witness: a text of the greatest length allowed, and an allowed value
C6_Witness ==
    /\ Validated("StringValidator")
    /\ last.data = StrV("xy")
    /\ last.ret = "True"
    /\ heap[last.v].min_length = 2
    /\ heap[last.v].max_length = IntV(2)
    /\ heap[last.v].allowed_values # NoneV

TypeMismatch ==
    LET kind == heap[last.v].kind
    IN  /\ last.op = "validate"
        /\ \/ kind = "StringValidator"
              /\ last.data # NoneV /\ last.data.t # "str"
           \/ kind = "ListValidator" /\ last.data.t # "list"
           \/ kind = "DictValidator" /\ last.data.t # "dict"

\* C7: a value of the wrong type (for the list and dict validators, None
\* too) fails before any other check: validate returns False, the message
\* ends with the name of the value's type, and no nested validator is called,
\* whatever lengths, required keys and nested validators are configured.
C7_TypeMismatchFirst ==
    TypeMismatch =>
        /\ last.ret = "False"
        /\ EndsWith(err[last.v], ", got " \o last.data.t)
        /\ last.log = <<[v |-> last.v, data |-> last.data]>>

\* C7 witness: a text handed to a ListValidator that has a minimum length
\* and an item validator
C7_Witness ==
    /\ TypeMismatch
    /\ heap[last.v].kind = "ListValidator"
    /\ last.data = StrV("")
    /\ heap[last.v].min_length = 1
    /\ heap[last.v].item_validator # NoneV

\* the list reaches the element checks
ReachesItems ==
    LET self == heap[last.v]
    IN  /\ Validated("ListValidator")
        /\ last.data.t = "list"
        /\ self.min_length <= Len(last.data.items)
        /\ self.max_length # NoneV =>
              Len(last.data.items) <= self.max_length.n
        /\ self.item_validator # NoneV
\* the positions (1-based) of the elements the item validator rejects
Rejected(item, items) ==
    {j \in 1..Len(items) : Outcome(item, items[j]).ret = "False"}
First(S) == CHOOSE j \in S : \A m \in S : j <= m

\* C8: when the item validator rejects an element, and k is the first such
\* index, ListValidator.validate returns False, its message names index k
\* and ends with the item validator's message for element k, and the item
\* validator has been called on the elements 0..k, in order, and on no
\* other.
C8_ListShortCircuit ==
    LET item == heap[last.v].item_validator.id
        items == last.data.items
        k == First(Rejected(item, items))
    IN  ReachesItems /\ Rejected(item, items) # {} =>
        /\ last.ret = "False"
        /\ err[last.v] = "Invalid item at index " \o ToString(k - 1) \o ": "
                          \o Outcome(item, items[k]).err[item]
        /\ last.log = <<[v |-> last.v, data |-> last.data]>>
                      \o [j \in 1..k |-> [v |-> item, data |-> items[j]]]

\* C9: ListValidator.validate returns True if and only if the input is a
\* list, min_length <= len, len <= max_length when it is set, and every
\* element passes the item validator when there is one; a length violation
\* is reported with the length and the bound it violates.
C9_ListIff ==
    LET self == heap[last.v]
        data == last.data
        n == Len(data.items)
    IN  Validated("ListValidator") =>
        /\ last.ret = "True" <=>
              /\ data.t = "list"
              /\ self.min_length <= n
              /\ self.max_length # NoneV => n <= self.max_length.n
              /\ self.item_validator # NoneV =>
                    \A j \in 1..n :
                        Outcome(self.item_validator.id, data.items[j]).ret
                            = "True"
        /\ data.t = "list" /\ n < self.min_length =>
              /\ last.ret = "False"
              /\ err[last.v] = "List length " \o ToString(n)
                    \o " is less than minimum " \o ToString(self.min_length)
        /\ /\ data.t = "list" /\ self.min_length <= n
           /\ self.max_length # NoneV /\ n > self.max_length.n
           => /\ last.ret = "False"
              /\ err[last.v] = "List length " \o ToString(n)
                    \o " is greater than maximum "
                    \o ToString(self.max_length.n)

\* C9 witness: a list of the greatest length allowed, every element of
\* which passes the item validator
C9_Witness ==
    /\ ReachesItems
    /\ heap[last.v].min_length = 1
    /\ heap[last.v].max_length = IntV(Len(last.data.items))
    /\ Len(last.data.items) >= 2
    /\ last.ret = "True"

\* the required keys the input lacks, as positions in required_keys
Lacking ==
    {j \in 1..Len(heap[last.v].required_keys) :
        \A m \in 1..Len(last.data.kv) :
            last.data.kv[m][1] # heap[last.v].required_keys[j]}
Names(msg, key) == Contains(msg, "'" \o key \o "'")

\* C10: when a mapping lacks required keys, DictValidator.validate returns
\* False and the message names the lacking key that comes first in
\* required_keys, and no required key after it.
C10_FirstMissingKey ==
    LET required == heap[last.v].required_keys
        k == First(Lacking)
    IN  Validated("DictValidator") /\ last.data.t = "dict" /\ Lacking # {}
        => /\ last.ret = "False"
           /\ Names(err[last.v], required[k])
           /\ \A j \in (k + 1)..Len(required) :
                 ~Names(err[last.v], required[j])

\* C10 witness: both of the required keys b, a are lacking, and b is named
C10_Witness ==
    /\ Validated("DictValidator")
    /\ heap[last.v].required_keys = <<"b", "a">>
    /\ last.data.t = "dict"
    /\ Cardinality(Lacking) = 2
    /\ Names(err[last.v], "b")

\* C24: a failed validation is signalled by an exception that leaves
\* validate (the claim names ValidationError), never by a returned False:
\* validating None where None is not allowed, a value that is no string, list
\* or mapping where one is expected, an int below the minimum or above the
\* maximum, or a mapping that lacks a required key raises.
C24_FailureRaises ==
    LET self == heap[last.v]
        data == last.data
    IN  last.op = "validate" =>
        /\ self.kind \in {"NumericValidator", "StringValidator"}
              /\ data = NoneV /\ ~self.allow_none
              => last.ret = "raised"
        /\ self.kind = "StringValidator" /\ data.t \notin {"str", "NoneType"}
              => last.ret = "raised"
        /\ self.kind = "ListValidator" /\ data.t # "list"
              => last.ret = "raised"
        /\ self.kind = "DictValidator" /\ data.t # "dict"
              => last.ret = "raised"
        /\ self.kind = "NumericValidator" /\ data.t = "int"
              /\ ~InRange(self, data)
              => last.ret = "raised"
        /\ self.kind = "DictValidator" /\ data.t = "dict" /\ Lacking # {}
              => last.ret = "raised"
        /\ last.ret # "False"

\* the validators nested in composite i
NestedIn(i) ==
    IF heap[i].kind = "ListValidator"
    THEN IF heap[i].item_validator = NoneV THEN {}
         ELSE {heap[i].item_validator.id}
    ELSE {heap[i].validators[j][2].id : j \in 1..Len(heap[i].validators)}
Composite(i) == heap[i].kind \in {"ListValidator", "DictValidator"}

\* C25: when a validate call on a ListValidator or a DictValidator returns
\* False after a nested call, the nested validator called last is the one
\* that rejected, and the composite's message ends with ": " and the message
\* that this validator holds right after the call; a call on a composite
\* that makes no nested call leaves the message of every other instance as
\* it was.
C25_SharedByReference ==
    [][last'.op = "validate" /\ Composite(last'.v) =>
          LET i == last'.v
              n == Len(last'.log)
              nested == last'.log[n].v
          IN  /\ last'.ret = "False" /\ n > 1 =>
                    /\ nested \in NestedIn(i)
                    /\ called'[nested] = "False"
                    /\ err'[nested] # ""
                    /\ EndsWith(err'[i], ": " \o err'[nested])
              /\ n = 1 => \A j \in Ids \ {i} : err'[j] = err[j]]_vars

\* C25 witness: a DictValidator has found b valid and a not numeric: the
\* message of the validator of a is the end of its own, and the validator
\* of b, called before, holds none
C25_Witness ==
    /\ Validated("DictValidator")
    /\ last.ret = "False"
    /\ Len(last.log) = 3
    /\ last.log[2].v = 2
    /\ last.log[3].v = 1
    /\ err[1] = "Value 'x' is not numeric"
    /\ err[2] = ""
    /\ err[3] = "Invalid value for key 'a': Value 'x' is not numeric"

\* the fields of the input that their validators, called on their own,
\* reject
RejectedFields ==
    {j \in 1..Len(heap[last.v].validators) :
        LET key == heap[last.v].validators[j][1]
            validator == heap[last.v].validators[j][2].id
        IN  /\ HasKey(last.data, key)
            /\ Outcome(validator, Lookup(last.data, key)).ret = "False"}

\* C26: when a mapping lacks a required key and holds a field that its
\* nested validator rejects, DictValidator.validate returns False, the
\* message names the first lacking key and is not that of a field, and the
\* call has made no nested call.
C26_RequiredKeysFirst ==
    LET required == heap[last.v].required_keys
    IN  /\ Validated("DictValidator")
        /\ last.data.t = "dict"
        /\ Lacking # {}
        /\ RejectedFields # {}
        => /\ last.ret = "False"
           /\ err[last.v] = "Required key '" \o required[First(Lacking)]
                            \o "' missing from dictionary"
           /\ Len(last.log) = 1

\* C26 witness: a is required and lacking, and b holds an int where its
\* validator takes strings: the validator of b has never been called
C26_Witness ==
    /\ Validated("DictValidator")
    /\ heap[last.v].required_keys = <<"a">>
    /\ last.data = DictV(<< <<"b", IntV(1)>> >>)
    /\ RejectedFields # {}
    /\ last.ret = "False"
    /\ called[2] = "none"
    /\ Len(last.log) = 1

\* the input lacks no required key, so the field validators are reached
ReachesFields ==
    /\ Validated("DictValidator")
    /\ last.data.t = "dict"
    /\ Lacking = {}
\* the positions in validators of the keys the input holds, in the iteration
\* order of validators
RECURSIVE Present(_, _, _)
Present(validators, data, j) ==
    IF j > Len(validators) THEN <<>>
    ELSE (IF HasKey(data, validators[j][1]) THEN <<j>> ELSE <<>>)
         \o Present(validators, data, j + 1)
\* the calls validate makes on the field validators at the positions ps
NestedCalls(validators, data, ps) ==
    [m \in 1..Len(ps) |->
        [v |-> validators[ps[m]][2].id,
         data |-> Lookup(data, validators[ps[m]][1])]]

\* C11: DictValidator.validate calls a nested validator for the keys that
\* are in both the input and validators, and for no other, in the iteration
\* order of validators; when a nested validator rejects a field, and k is the
\* first such key, validate returns False with the message "Invalid value for
\* key 'k': " followed by the nested validator's message, and the validators
\* of the later keys are not called; when none rejects, validate returns
\* True, whatever keys of validators the input lacks.
C11_DictNested ==
    LET validators == heap[last.v].validators
        present == Present(validators, last.data, 1)
        calls == NestedCalls(validators, last.data, present)
        rejected == {m \in 1..Len(calls) :
                        Outcome(calls[m].v, calls[m].data).ret = "False"}
        k == First(rejected)
        outer == <<[v |-> last.v, data |-> last.data]>>
    IN  ReachesFields =>
           IF rejected = {}
           THEN /\ last.ret = "True"
                /\ last.log = outer \o calls
           ELSE /\ last.ret = "False"
                /\ err[last.v] =
                      "Invalid value for key '" \o validators[present[k]][1]
                      \o "': " \o Outcome(calls[k].v, calls[k].data).err[calls[k].v]
                /\ last.log = outer \o SubSeq(calls, 1, k)

\* the keys the schema of a DictValidator covers
Covered(self) ==
    {self.required_keys[j] : j \in 1..Len(self.required_keys)}
    \cup {self.validators[j][1] : j \in 1..Len(self.validators)}
\* the items of a mapping whose keys are in keys, in their order
RECURSIVE Keep(_, _)
Keep(kv, keys) ==
    IF kv = <<>> THEN <<>>
    ELSE (IF Head(kv)[1] \in keys THEN <<Head(kv)>> ELSE <<>>)
         \o Keep(Tail(kv), keys)
\* the mappings that differ from data by one more key the schema leaves out
OneMore(self, data) ==
    {DictV(<< <<key, x>> >> \o data.kv) :
        key \in {k \in {"a", "b", "c"} :
                    k \notin Covered(self) /\ ~HasKey(data, k)},
        x \in {NoneV, IntV(1), StrV("")}}

\* C12: the schema of a DictValidator is open: validate gives a mapping the
\* result, and on a return the message, that it gives the mapping without
\* its keys that are in neither required_keys nor validators, and that it
\* gives it with one more such key.
C12_OpenSchema ==
    LET self == heap[last.v]
        same(r) ==
            /\ last.ret = r.ret
            /\ last.ret \in {"True", "False"} => err[last.v] = r.err[last.v]
    IN  Validated("DictValidator") /\ last.data.t = "dict" =>
        /\ same(Outcome(last.v, DictV(Keep(last.data.kv, Covered(self)))))
        /\ \A more \in OneMore(self, last.data) : same(Outcome(last.v, more))

\* C12 witness: a mapping that holds the key c, which the schema does not
\* cover, passes a validator with required keys and nested validators
C12_Witness ==
    /\ Validated("DictValidator")
    /\ heap[last.v].required_keys # <<>>
    /\ heap[last.v].validators # <<>>
    /\ last.data.t = "dict"
    /\ HasKey(last.data, "c")
    /\ "c" \notin Covered(heap[last.v])
    /\ last.ret = "True"

\* C13: no call changes the configuration of an instance: across every
\* validate and get_error_message call min_value, max_value, allow_none,
\* min_length, max_length, allowed_values, item_validator, required_keys and
\* validators keep the values given to the constructor; and validate leaves
\* the value it is given as it was handed in.
C13_ConfigurationImmutable ==
    [][/\ heap' = heap
       /\ last'.op = "validate" => last'.data = last'.log[1].data]_vars

\* C13 witness: a validator, its bounds still as constructed, after it has
\* rejected a value and its message has been read
C13_Witness ==
    /\ last.op = "get_error_message"
    /\ heap[last.v] = NumericValidator(IntV(1), IntV(MaxNum - 1), FALSE)
    /\ called[last.v] = "False"
    /\ last.msg = err[last.v]

\* C14: the result of validate does not depend on the calls made before it:
\* on every instance, nested ones included, and after any calls on it and on
\* its nested validators, validate(value) returns the boolean and leaves the
\* message that it returns and leaves on freshly constructed instances.
C14_HistoryIndependent ==
    last.op = "validate" =>
        /\ last.ret = Outcome(last.v, last.data).ret
        /\ err[last.v] = Outcome(last.v, last.data).err[last.v]

\* C15: get_error_message is a read: it changes no field of any instance,
\* and two calls in a row on an instance return the same string.
C15_GetErrorMessagePure ==
    [][last'.op = "get_error_message" =>
          /\ heap' = heap /\ err' = err /\ called' = called
          /\ last'.msg = err[last'.v]
          /\ last.op = "get_error_message" /\ last.v = last'.v =>
                last'.msg = last.msg]_vars

\* C15 witness: the second read in a row of the message of a failed call
C15_Witness ==
    /\ last.op = "get_error_message"
    /\ last.reads = 2
    /\ called[last.v] = "False"
    /\ last.msg # ""

\* the nested calls a validate call may make, in the order it makes them:
\* one for each element of a list, one for each field validator whose key
\* the mapping holds
Work(i, data) ==
    LET self == heap[i]
    IN  CASE self.kind = "ListValidator" /\ data.t = "list"
               /\ self.item_validator # NoneV ->
                [j \in 1..Len(data.items) |->
                    [v |-> self.item_validator.id, data |-> data.items[j]]]
          [] self.kind = "DictValidator" /\ data.t = "dict" ->
                NestedCalls(self.validators, data,
                            Present(self.validators, data, 1))
          [] OTHER -> <<>>

\* C17: every validate call ends, by a return or by the exception of C2,
\* after a bounded number of nested calls: the item validator is called at
\* most once for each element of the list, each field validator at most once,
\* in order and with no call repeated, so a call makes at most len(data)
\* nested calls on a list and at most len(validators) on a mapping.
C17_BoundedCalls ==
    LET work == Work(last.v, last.data)
    IN  last.op = "validate" =>
        /\ last.ret \in {"True", "False", "raised"}
        /\ \E k \in 0..Len(work) :
              last.log = <<[v |-> last.v, data |-> last.data]>>
                         \o SubSeq(work, 1, k)
        /\ heap[last.v].kind = "ListValidator" /\ last.data.t = "list" =>
              Len(last.log) <= 1 + Len(last.data.items)
        /\ heap[last.v].kind = "DictValidator" =>
              Len(last.log) <= 1 + Len(heap[last.v].validators)
        /\ \A i \in Ids : heap[i].kind = "ListValidator"
                          /\ heap[i].item_validator # NoneV =>
                              heap[i].item_validator.id < i
        /\ \A i \in Ids : heap[i].kind = "DictValidator" =>
              \A j \in 1..Len(heap[i].validators) :
                  heap[i].validators[j][2].id < i

\* C17 witness: a list of the greatest length of the model, every element of
\* which was validated once
C17_Witness ==
    /\ Validated("ListValidator")
    /\ last.data.t = "list"
    /\ Len(last.data.items) = MaxLen
    /\ last.ret = "True"
    /\ Len(last.log) = 1 + MaxLen

(***************************************************************************)
(* Concurrent use.  Two threads of control each run                        *)
(*     ok = v.validate(data); msg = v.get_error_message()                  *)
(* on instances that share the NumericValidator 1: thread t is at pc[t],   *)
(* and frame[t] holds its locals.  A step is what a thread does between    *)
(* two accesses to an _error_message field: the checks of a composite up   *)
(* to its first nested call, one nested call, the read of the nested       *)
(* message, the assignment of the composite's own message.  A leaf's       *)
(* validate touches the fields once, by its final assignment, so it is one *)
(* step.  frame[t].crossed records that another thread assigned a field    *)
(* between the start of t's validate and t's read of the message.          *)
(***************************************************************************)
Threads == {1, 2}

ThreadHeap ==
    <<NumericValidator(IntV(1), IntV(MaxNum - 1), FALSE),
      ListValidator(Ref(1), 0, NoneV),
      DictValidator(<<>>, << <<"a", Ref(1)>> >>)>>

\* the calls a thread may make: the instance and the value
Programs ==
    {[v |-> 1, data |-> x] : x \in {IntV(1), IntV(MaxNum), StrV("x")}}
    \cup {[v |-> 2, data |-> x] :
            x \in {NoneV} \cup {ListV(q) :
                        q \in SeqsUpTo({IntV(1), IntV(MaxNum)}, MaxThreadLen)}}
    \cup {[v |-> 3, data |-> DictV(kv)] :
            kv \in Field("a", {IntV(1), IntV(MaxNum), StrV("x")})}

InitThreads ==
    /\ heap = ThreadHeap
    /\ err = [i \in 1..Len(heap) |-> ""]
    /\ called = [i \in 1..Len(heap) |-> "none"]
    /\ last = [op |-> "new", v |-> 0, data |-> NoneV, ret |-> "",
               msg |-> "", log |-> <<>>, reads |-> 0]
    /\ NoCalculator
    /\ NoConfig
    /\ NoRetry
    /\ pc = [t \in Threads |-> "validate"]
    /\ frame \in [Threads ->
                    {[v |-> p.v, data |-> p.data, j |-> 0, ok |-> "",
                      held |-> "", msg |-> "", crossed |-> FALSE] :
                        p \in Programs}]

\* thread t is between the start of its validate and its read of the message
InCall(t) == pc[t] \in {"item", "field", "message", "assign", "finish", "read"}

\* the frames after thread u has assigned the fields to e: the threads that
\* are in a call have been crossed
Crossed(u, e) ==
    [t \in Threads |->
        IF t # u /\ InCall(t) /\ e # err
        THEN [frame[t] EXCEPT !.crossed = TRUE] ELSE frame[t]]

\* thread t: self._error_message = msg; return ok
Assign(t, ok, msg) ==
    LET e == [err EXCEPT ![frame[t].v] = msg]
    IN  /\ err' = e
        /\ frame' = [Crossed(t, e) EXCEPT ![t].ok = ok]
        /\ pc' = [pc EXCEPT ![t] = "read"]

\* thread t: nested.validate(value), one step; then the branch on its result
Nested(t, nested, value, more, j) ==
    LET r == Validate(nested, value,
                      [err |-> err, called |-> called, log |-> <<>>])
    IN  /\ err' = r.err
        /\ frame' = [Crossed(t, r.err) EXCEPT
                        ![t].j = IF r.ret = "True" THEN j ELSE @]
        /\ pc' = [pc EXCEPT ![t] =
                    CASE r.ret = "raised" -> "raised"
                      [] r.ret = "False" -> "message"
                      [] OTHER -> more]

\* a NumericValidator's or StringValidator's validate
LeafValidate(t) ==
    LET v == frame[t].v
        r == Validate(v, frame[t].data,
                      [err |-> err, called |-> called, log |-> <<>>])
    IN  /\ pc[t] = "validate"
        /\ heap[v].kind \in {"NumericValidator", "StringValidator"}
        /\ err' = r.err
        /\ frame' = [Crossed(t, r.err) EXCEPT ![t].ok = r.ret]
        /\ pc' = [pc EXCEPT ![t] =
                    IF r.ret = "raised" THEN "raised" ELSE "read"]
        /\ UNCHANGED <<heap, called, last, calcVars, utilVars>>

\* ListValidator.validate up to the loop over the elements
ListEnter(t) ==
    LET self == heap[frame[t].v]
        data == frame[t].data
    IN  /\ pc[t] = "validate"
        /\ self.kind = "ListValidator"
        /\ IF data.t # "list"
           THEN Assign(t, "False", "Value must be list, got " \o data.t)
           ELSE IF ListTooShort(self, data)
           THEN Assign(t, "False",
                       "List length " \o ToString(Len(data.items))
                       \o " is less than minimum "
                       \o ToString(self.min_length))
           ELSE IF ListTooLong(self, data)
           THEN Assign(t, "False",
                       "List length " \o ToString(Len(data.items))
                       \o " is greater than maximum "
                       \o PyStr(self.max_length))
           ELSE /\ pc' = [pc EXCEPT ![t] =
                            IF self.item_validator # NoneV
                               /\ Len(data.items) > 0
                            THEN "item" ELSE "finish"]
                /\ frame' = [frame EXCEPT ![t].j = 1]
                /\ UNCHANGED err
        /\ UNCHANGED <<heap, called, last, calcVars, utilVars>>

\* if not self.item_validator.validate(item)
ListItem(t) ==
    LET self == heap[frame[t].v]
        j == frame[t].j
        items == frame[t].data.items
    IN  /\ pc[t] = "item"
        /\ Nested(t, self.item_validator.id, items[j],
                  IF j < Len(items) THEN "item" ELSE "finish", j + 1)
        /\ UNCHANGED <<heap, called, last, calcVars, utilVars>>

\* the position in validators, from j on, of the first key that data holds;
\* 0 when it holds none
NextField(self, data, j) ==
    LET there == {m \in j..Len(self.validators) :
                    HasKey(data, self.validators[m][1])}
    IN  IF there = {} THEN 0 ELSE CHOOSE m \in there : \A n \in there : m <= n

\* DictValidator.validate up to the first nested call
DictEnter(t) ==
    LET self == heap[frame[t].v]
        data == frame[t].data
        j == MissingKey(self, data)
    IN  /\ pc[t] = "validate"
        /\ self.kind = "DictValidator"
        /\ IF data.t # "dict"
           THEN Assign(t, "False", "Value must be dictionary, got " \o data.t)
           ELSE IF j # 0
           THEN Assign(t, "False",
                       "Required key '" \o self.required_keys[j]
                       \o "' missing from dictionary")
           ELSE /\ pc' = [pc EXCEPT ![t] =
                            IF NextField(self, data, 1) # 0
                            THEN "field" ELSE "finish"]
                /\ frame' = [frame EXCEPT ![t].j = NextField(self, data, 1)]
                /\ UNCHANGED err
        /\ UNCHANGED <<heap, called, last, calcVars, utilVars>>

\* if not validator.validate(data[key])
DictField(t) ==
    LET self == heap[frame[t].v]
        j == frame[t].j
        data == frame[t].data
        next == NextField(self, data, j + 1)
    IN  /\ pc[t] = "field"
        /\ Nested(t, self.validators[j][2].id,
                  Lookup(data, self.validators[j][1]),
                  IF next # 0 THEN "field" ELSE "finish", next)
        /\ UNCHANGED <<heap, called, last, calcVars, utilVars>>

\* the nested validator whose call has just returned False to thread t
Rejecting(t) ==
    LET self == heap[frame[t].v]
    IN  IF self.kind = "ListValidator" THEN self.item_validator.id
        ELSE self.validators[frame[t].j][2].id

\* self.item_validator.get_error_message(), validator.get_error_message()
NestedMessage(t) ==
    /\ pc[t] = "message"
    /\ frame' = [frame EXCEPT ![t].held = err[Rejecting(t)]]
    /\ pc' = [pc EXCEPT ![t] = "assign"]
    /\ UNCHANGED <<heap, err, called, last, calcVars, utilVars>>

\* self._error_message = f"Invalid ...: {...}"; return False
AssignNested(t) ==
    LET self == heap[frame[t].v]
    IN  /\ pc[t] = "assign"
        /\ Assign(t, "False",
                  IF self.kind = "ListValidator"
                  THEN "Invalid item at index " \o ToString(frame[t].j - 1)
                       \o ": " \o frame[t].held
                  ELSE "Invalid value for key '"
                       \o self.validators[frame[t].j][1] \o "': "
                       \o frame[t].held)
        /\ UNCHANGED <<heap, called, last, calcVars, utilVars>>

\* self._error_message = ""; return True
Finish(t) ==
    /\ pc[t] = "finish"
    /\ Assign(t, "True", "")
    /\ UNCHANGED <<heap, called, last, calcVars, utilVars>>

\* msg = v.get_error_message(), with a ListValidator handing out the message
\* of its item validator instead of its own
ReadMessageOfItems(t) ==
    LET self == heap[frame[t].v]
        holder == IF self.kind = "ListValidator" /\ self.item_validator # NoneV
                  THEN self.item_validator.id ELSE frame[t].v
    IN  /\ pc[t] = "read"
        /\ frame' = [frame EXCEPT ![t].msg = err[holder]]
        /\ pc' = [pc EXCEPT ![t] = "done"]
        /\ UNCHANGED <<heap, err, called, last, calcVars, utilVars>>
\* msg = v.get_error_message()
ReadMessage(t) ==
    /\ pc[t] = "read"
    /\ frame' = [frame EXCEPT ![t].msg = err[frame[t].v]]
    /\ pc' = [pc EXCEPT ![t] = "done"]
    /\ UNCHANGED <<heap, err, called, last, calcVars, utilVars>>

NextThreads ==
    \E t \in Threads :
        \/ LeafValidate(t)
        \/ ListEnter(t)
        \/ ListItem(t)
        \/ DictEnter(t)
        \/ DictField(t)
        \/ NestedMessage(t)
        \/ AssignNested(t)
        \/ Finish(t)
        \/ ReadMessage(t)

SpecThreads == InitThreads /\ [][NextThreads]_vars

\* C16: the _error_message fields are raced on, and nothing else is.  The
\* boolean a thread's validate returns is always the one of its own call, and
\* the message the thread then reads is the one of its own call unless
\* another thread assigned a field in between; when one did, the thread can
\* read a message that is not the one of its call, and a composite can embed
\* the message that another thread's call left in a shared nested validator
\* (the witness).
C16_RaceOnLastError ==
    \A t \in Threads :
        LET own == Outcome(frame[t].v, frame[t].data)
        IN  /\ pc[t] \in {"read", "done"} => frame[t].ok = own.ret
            /\ pc[t] = "done" /\ ~frame[t].crossed =>
                  frame[t].msg = own.err[frame[t].v]

\* C16 witness: thread t's ListValidator rejected a number above the
\* maximum, and the message t reads for it embeds 'is not numeric', the
\* message the other thread's DictValidator call left in the shared
\* NumericValidator
C16_Witness ==
    \E t \in Threads, u \in Threads :
        /\ t # u
        /\ pc[t] = "done"
        /\ heap[frame[t].v].kind = "ListValidator"
        /\ heap[frame[u].v].kind = "DictValidator"
        /\ frame[t].data = ListV(<<IntV(MaxNum)>>)
        /\ frame[u].data = DictV(<< <<"a", StrV("x")>> >>)
        /\ frame[t].ok = "False"
        /\ frame[t].msg = "Invalid item at index 0: Value 'x' is not numeric"
        /\ frame[t].msg # Outcome(frame[t].v, frame[t].data).err[frame[t].v]

(***************************************************************************)
(* The calculators: the Calculator of feature_calculator/calculator.py and *)
(* the Calculator and the shell of main.py.                                *)
(*                                                                         *)
(* Their numbers.  An int is n (d = 1).  A float is the double of value    *)
(* n/d, in lowest terms with d > 0; root marks the float n ** 0.5 of an n  *)
(* that is no square.  The two zeros of a double are one value here, as    *)
(* they are for ==.                                                        *)
(***************************************************************************)
Abs(n) == IF n < 0 THEN 0 - n ELSE n
RECURSIVE Gcd(_, _)
Gcd(a, b) == IF b = 0 THEN a ELSE Gcd(b, a % b)

PyInt(n) == [t |-> "int", n |-> n, d |-> 1, root |-> FALSE]
PyFloat(n, d) ==
    LET g == Gcd(Abs(n), Abs(d))
        sign == IF d < 0 THEN 0 - 1 ELSE 1
    IN  [t |-> "float", n |-> sign * (n \div g), d |-> sign * (d \div g),
         root |-> FALSE]
PyRoot(n) == [t |-> "float", n |-> n, d |-> 1, root |-> TRUE]

\* x == 0 and x < 0
IsZero(x) == x.n = 0
IsNegative(x) == x.n < 0

\* the type of the result of an operator on a and b
Kind(a, b) == IF a.t = "float" \/ b.t = "float" THEN "float" ELSE "int"
Number(t, n, d) == IF t = "int" THEN PyInt(n) ELSE PyFloat(n, d)

\* what a call does: it returns value, or raises exc with the message msg
Returns(value) == [exc |-> "", msg |-> "", value |-> value]
Throws(exc, msg) == [exc |-> exc, msg |-> msg, value |-> NoneV]

\* a + b, a - b, a * b
Plus(a, b) == Number(Kind(a, b), a.n * b.d + b.n * a.d, a.d * b.d)
Minus(a, b) == Number(Kind(a, b), a.n * b.d - b.n * a.d, a.d * b.d)
Times(a, b) == Number(Kind(a, b), a.n * b.n, a.d * b.d)
\* a / b
TrueDiv(a, b) ==
    IF IsZero(b)
    THEN Throws("ZeroDivisionError",
                IF Kind(a, b) = "float" THEN "float division by zero"
                ELSE "division by zero")
    ELSE Returns(PyFloat(a.n * b.d, a.d * b.n))
\* a ** b, for a whole exponent b
Pow(a, b) ==
    LET e == b.n
    IN  IF e = 0
        THEN Returns(Number(Kind(a, b), 1, 1))
        ELSE IF e > 0
        THEN Returns(Number(Kind(a, b), a.n ^ e, a.d ^ e))
        ELSE IF IsZero(a)
        THEN Throws("ZeroDivisionError",
                    "0.0 cannot be raised to a negative power")
        ELSE Returns(PyFloat(a.d ^ (0 - e), a.n ^ (0 - e)))
\* a % b, for whole a and b: the remainder has the sign of b
Mod(a, b) ==
    IF IsZero(b)
    THEN Throws("ZeroDivisionError",
                IF Kind(a, b) = "float" THEN "float modulo"
                ELSE "integer division or modulo by zero")
    ELSE Returns(Number(Kind(a, b),
                        IF b.n > 0 THEN a.n % b.n
                        ELSE 0 - ((0 - a.n) % (0 - b.n)), 1))
\* num ** 0.5, for a whole num >= 0
Sqrt(num) ==
    IF \E r \in 0..num.n : r * r = num.n
    THEN PyFloat(CHOOSE r \in 0..num.n : r * r = num.n, 1)
    ELSE PyRoot(num.n)

(***************************************************************************)
(* calculator.py: the methods of Calculator, as what they return or raise. *)
(* A method that returns has assigned what it returns to last_result.      *)
(***************************************************************************)
add(a, b) == Returns(Plus(a, b))
subtract(a, b) == Returns(Minus(a, b))
multiply(a, b) == Returns(Times(a, b))
divide(a, b) ==
    IF IsZero(b) THEN Throws("ValueError", "Cannot divide by zero")
    ELSE TrueDiv(a, b)
power(base, exponent) == Pow(base, exponent)
square_root(num) ==
    IF IsNegative(num)
    THEN Throws("ValueError",
                "Cannot calculate square root of negative number")
    ELSE Returns(Sqrt(num))

(***************************************************************************)
(* main.py: the Calculator of the shell.                                   *)
(***************************************************************************)
Operators == {"+", "-", "*", "/", "**", "%"}

\* self.operations[operator](num1, num2)
Operation(operator, x, y) ==
    CASE operator = "+" -> Returns(Plus(x, y))
      [] operator = "-" -> Returns(Minus(x, y))
      [] operator = "*" -> Returns(Times(x, y))
      [] operator = "/" ->
            IF ~IsZero(y) THEN TrueDiv(x, y)
            ELSE Throws("ValueError", "Cannot divide by zero")
      [] operator = "**" -> Pow(x, y)
      [] operator = "%" ->
            IF ~IsZero(y) THEN Mod(x, y)
            ELSE Throws("ValueError", "Cannot perform modulo with zero")

\* calculate with the exception of the operation left as it is
calculateUnwrapped(num1, operator, num2) ==
    IF operator \notin Operators
    THEN Throws("KeyError", "'" \o operator \o "'")
    ELSE Operation(operator, num1, num2)
\* Calculator.calculate
calculate(num1, operator, num2) ==
    LET r == Operation(operator, num1, num2)
    IN  IF operator \notin Operators
        THEN Throws("ValueError", "Unsupported operator: " \o operator)
        ELSE IF r.exc = "" THEN r
        ELSE Throws("ValueError", "Calculation error: " \o r.msg)

\* str.split(): the words of a text, which blanks separate
RECURSIVE Split(_)
Split(text) ==
    LET body == LStrip(text)
        blanks == {k \in 1..Len(body) : SubSeq(body, k, k) = " "}
        end == IF blanks = {} THEN Len(body) + 1
               ELSE CHOOSE k \in blanks : \A m \in blanks : k <= m
    IN  IF body = "" THEN <<>>
        ELSE <<SubSeq(body, 1, end - 1)>>
             \o Split(SubSeq(body, end, Len(body)))

\* the float of the shell that float(token) gives
Operand(f) == PyFloat(f.x, 1)

\* Calculator.parse_input: the result is <<num1, operator, num2>>
parse_input(user_input) ==
    LET parts == Split(Strip(user_input))
        num1 == ParseFloat(parts[1])
        num2 == ParseFloat(parts[3])
        invalid(part) ==
            Throws("ValueError",
                   "Invalid input: could not convert string to float: '"
                   \o part \o "'")
    IN  IF Len(parts) < 3
        THEN Throws("ValueError",
                    "Invalid input format. Use: number operator number")
        ELSE IF num1.exc # "" THEN invalid(parts[1])
        ELSE IF num2.exc # "" THEN invalid(parts[3])
        ELSE Returns(<<Operand(num1.f), parts[2], Operand(num2.f)>>)

\* str.lower(), on the letters A to Z
UpperCase == "ABCDEFGHIJKLMNOPQRSTUVWXYZ"
LowerCase == "abcdefghijklmnopqrstuvwxyz"
RECURSIVE Lower(_)
\* the text as it is: letter case kept
Verbatim(text) == text
Lower(text) ==
    LET c == SubSeq(text, 1, 1)
        at == {k \in 1..Len(UpperCase) : SubSeq(UpperCase, k, k) = c}
    IN  IF text = "" THEN ""
        ELSE (IF at = {} THEN c
              ELSE LET k == CHOOSE k \in at : TRUE
                   IN  SubSeq(LowerCase, k, k))
             \o Lower(SubSeq(text, 2, Len(text)))

(***************************************************************************)
(* The calculator runs.  A run drives one of: a Calculator of              *)
(* calculator.py, whose methods a caller calls; a Calculator of main.py,   *)
(* likewise; the shell of main.py, which reads lines.  answer is the       *)
(* latest call or line with its outcome: what it returned (value) or       *)
(* raised (exc, msg), and for the shell what it printed (out) and whether  *)
(* it went on to parse the line as a calculation (parsed).                 *)
(***************************************************************************)
Whole == (0 - 1)..MaxOperand
\* the operands of calculator.py: ints, and the float 0.0
Numbers == {PyInt(k) : k \in Whole} \cup {PyFloat(0, 1)}
\* the operands of main.py's Calculator: floats
Floats == {PyFloat(k, 1) : k \in Whole}
Symbols == Operators \cup {"^"}

Commands == {"help", "last", "quit"}
\* the lines typed at the prompt
Lines ==
    {"", "  ", "quit", "QUIT", " Quit ", "help", "HELP", "hElP ", "last",
     "LAST", "  Last", "quit now", "lastly", "1 +", "x + 1", "1 + y",
     " 1  +  2  3 ", "-1 ** -1"}
    \cup {ToString(a) \o " " \o symbol \o " " \o ToString(b) :
            a \in 0..MaxOperand, symbol \in Symbols, b \in 0..MaxOperand}

NoAnswer ==
    [op |-> "new", a |-> NoneV, b |-> NoneV, operator |-> "", line |-> "",
     exc |-> "", msg |-> "", value |-> NoneV, out |-> <<>>,
     parsed |-> FALSE]

\* print(text) and print(f"{text}{value}")
Printed(text) == <<[text |-> text, value |-> NoneV]>>
PrintedValue(text, value) == <<[text |-> text, value |-> value]>>

InitCalc ==
    /\ program \in {"calculator.Calculator", "main.Calculator", "main"}
    /\ last_result = NoneV
    /\ running = (program = "main")
    /\ answer = NoAnswer
    /\ heap = <<>>
    /\ err = <<>>
    /\ called = <<>>
    /\ last = [op |-> "new", v |-> 0, data |-> NoneV, ret |-> "",
               msg |-> "", log |-> <<>>, reads |-> 0]
    /\ NoThreads
    /\ NoConfig
    /\ NoRetry

\* last_result after a call that assigns even when the call raises
StoredAlways(r) == r.value
\* last_result after a call: assigned when the call returns, and only then
Stored(r) == IF r.exc = "" THEN r.value ELSE last_result

\* a call of an arithmetic method of calculator.py
Method(name, a, b, r) ==
    /\ program = "calculator.Calculator"
    /\ last_result' = Stored(r)
    /\ answer' = [NoAnswer EXCEPT !.op = name, !.a = a, !.b = b,
                                  !.exc = r.exc, !.msg = r.msg,
                                  !.value = r.value]
    /\ UNCHANGED <<program, running, validatorVars, threadVars, utilVars>>

Add == \E a \in Numbers, b \in Numbers : Method("add", a, b, add(a, b))
Subtract ==
    \E a \in Numbers, b \in Numbers :
        Method("subtract", a, b, subtract(a, b))
Multiply ==
    \E a \in Numbers, b \in Numbers :
        Method("multiply", a, b, multiply(a, b))
Divide ==
    \E a \in Numbers, b \in Numbers : Method("divide", a, b, divide(a, b))
Power ==
    \E base \in Numbers, exponent \in Numbers :
        Method("power", base, exponent, power(base, exponent))
SquareRoot ==
    \E num \in Numbers : Method("square_root", num, NoneV, square_root(num))

\* a call of modulo on a Calculator of calculator.py, as the tests make it:
\* the class defines no modulo, and the attribute lookup raises
Modulo ==
    \E a \in Numbers, b \in Numbers :
        Method("modulo", a, b,
               Throws("AttributeError",
                      "'Calculator' object has no attribute 'modulo'"))

\* Calculator.get_last_result, of calculator.py and of main.py
GetLastResult ==
    /\ program \in {"calculator.Calculator", "main.Calculator"}
    /\ answer' = [NoAnswer EXCEPT !.op = "get_last_result",
                                  !.value = last_result]
    /\ UNCHANGED <<program, last_result, running, validatorVars, threadVars, utilVars>>

\* Calculator.reset
Reset ==
    /\ program = "calculator.Calculator"
    /\ last_result' = NoneV
    /\ answer' = [NoAnswer EXCEPT !.op = "reset"]
    /\ UNCHANGED <<program, running, validatorVars, threadVars, utilVars>>

\* a call of calculate of main.py's Calculator
Calculate ==
    \E num1 \in Floats, operator \in Symbols, num2 \in Floats :
        LET r == calculate(num1, operator, num2)
        IN  /\ program = "main.Calculator"
            /\ last_result' = Stored(r)
            /\ answer' = [NoAnswer EXCEPT !.op = "calculate", !.a = num1,
                                          !.b = num2, !.operator = operator,
                                          !.exc = r.exc, !.msg = r.msg,
                                          !.value = r.value]
            /\ UNCHANGED <<program, running, validatorVars, threadVars, utilVars>>

\* except ValueError as e: ...; except Exception as e: ...
Caught(r) ==
    Printed((IF r.exc = "ValueError" THEN "Error: " ELSE "Unexpected error: ")
            \o r.msg)

\* one turn of the loop of main: a line is read and handled
Line(text) ==
    LET user_input == Strip(text)
        command == Lower(user_input)
        p == parse_input(user_input)
        r == calculate(p.value[1], p.value[2], p.value[3])
        shown(out, parsed) ==
            answer' = [NoAnswer EXCEPT !.op = "line", !.line = text,
                                       !.out = out, !.parsed = parsed]
    IN  /\ program = "main"
        /\ running
        /\ CASE user_input = "" ->
                    /\ shown(<<>>, FALSE)
                    /\ UNCHANGED <<last_result, running>>
             [] command = "quit" ->
                    /\ shown(Printed("Thank you for using Feature Calculator. Goodbye!"),
                             FALSE)
                    /\ running' = FALSE
                    /\ UNCHANGED last_result
             [] command = "help" ->
                    /\ shown(Printed("Feature Calculator - Interactive CLI"),
                             FALSE)
                    /\ UNCHANGED <<last_result, running>>
             [] command = "last" ->
                    /\ shown(IF last_result # NoneV
                             THEN PrintedValue("Last result: ", last_result)
                             ELSE Printed("No previous calculation result available."),
                             FALSE)
                    /\ UNCHANGED <<last_result, running>>
             [] OTHER ->
                    /\ shown(IF p.exc # "" THEN Caught(p)
                             ELSE IF r.exc # "" THEN Caught(r)
                             ELSE PrintedValue("Result: ", r.value),
                             TRUE)
                    /\ last_result' = IF p.exc # "" THEN last_result
                                      ELSE Stored(r)
                    /\ UNCHANGED running
        /\ UNCHANGED <<program, validatorVars, threadVars, utilVars>>

ReadLine == \E text \in Lines : Line(text)

\* input() raises KeyboardInterrupt: the shell exits
Interrupt ==
    /\ program = "main"
    /\ running
    /\ running' = FALSE
    /\ answer' = [NoAnswer EXCEPT !.op = "interrupt",
                     !.out = Printed("Calculator interrupted. Goodbye!")]
    /\ UNCHANGED <<program, last_result, validatorVars, threadVars, utilVars>>

\* input() raises EOFError and the shell takes the end of its input as a
\* request to stop
EndOfInputExits ==
    /\ program = "main"
    /\ running
    /\ running' = FALSE
    /\ answer' = [NoAnswer EXCEPT !.op = "eof",
                     !.out = Caught(Throws("EOFError",
                                           "EOF when reading a line"))]
    /\ UNCHANGED <<program, last_result, validatorVars, threadVars, utilVars>>
\* input() raises EOFError, which except Exception catches
EndOfInput ==
    /\ program = "main"
    /\ running
    /\ answer' = [NoAnswer EXCEPT !.op = "eof",
                     !.out = Caught(Throws("EOFError",
                                           "EOF when reading a line"))]
    /\ UNCHANGED <<program, last_result, running, validatorVars, threadVars, utilVars>>

NextCalc ==
    \/ Add
    \/ Subtract
    \/ Multiply
    \/ Divide
    \/ Power
    \/ SquareRoot
    \/ Modulo
    \/ GetLastResult
    \/ Reset
    \/ Calculate
    \/ ReadLine
    \/ Interrupt
    \/ EndOfInput

SpecCalc == InitCalc /\ [][NextCalc]_vars

ValueError == answer.exc = "ValueError" /\ answer.msg # ""

C23_Modulo ==
    answer.op = "modulo" =>
        IF IsZero(answer.b) THEN ValueError
        ELSE /\ answer.exc = ""
             /\ answer.value = Mod(answer.a, answer.b).value

Arithmetic ==
    {"add", "subtract", "multiply", "divide", "power", "square_root",
     "calculate"}

\* C19: last_result is None at construction and after reset; an arithmetic
\* call that returns leaves in it the value it returned; one that raises
\* leaves it as it was; get_last_result returns it and leaves it as it was.
\* So get_last_result returns what the latest successful arithmetic call
\* since construction or reset returned, and None when there was none.  A
\* line of the shell that calculates is such a call.
C19_LastResult ==
    [][/\ answer.op = "new" => last_result = NoneV
       /\ answer'.op \in Arithmetic /\ answer'.exc = "" =>
             last_result' = answer'.value /\ answer'.value # NoneV
       /\ answer'.op \in Arithmetic /\ answer'.exc # "" =>
             last_result' = last_result
       /\ answer'.op = "reset" => last_result' = NoneV
       /\ answer'.op = "get_last_result" =>
             answer'.value = last_result /\ last_result' = last_result
       /\ answer'.op = "line" =>
             IF answer'.parsed /\ answer'.out[1].text = "Result: "
             THEN last_result' = answer'.out[1].value
             ELSE last_result' = last_result]_vars

\* C19 witness: a division by zero after a call that returned a float: the
\* float is still the last result
C19_Witness ==
    /\ answer.op = "divide"
    /\ answer.exc = "ValueError"
    /\ last_result.t = "float"
    /\ last_result.d > 1

\* text spells word, each letter in either case
Spells(text, word) ==
    /\ Len(text) = Len(word)
    /\ \A k \in 1..Len(word) :
          \/ SubSeq(text, k, k) = SubSeq(word, k, k)
          \/ \E m \in 1..Len(LowerCase) :
                /\ SubSeq(word, k, k) = SubSeq(LowerCase, m, m)
                /\ SubSeq(text, k, k) = SubSeq(UpperCase, m, m)
\* the command that a line is, "" when it is none
CommandOf(line) ==
    IF \E word \in Commands : Spells(Strip(line), word)
    THEN CHOOSE word \in Commands : Spells(Strip(line), word)
    ELSE ""

\* C20: a line that, once trimmed, spells help, last or quit in any letter
\* case is handled as that command and not parsed as a calculation: help and
\* print their text, leave last_result as it was and the shell goes on; last
\* prints that no result is available while last_result is None; quit ends
\* the shell.
C20_ShellCommands ==
    [][LET command == CommandOf(answer'.line)
       IN  answer'.op = "line" /\ command \in Commands =>
           /\ running
           /\ ~answer'.parsed
           /\ last_result' = last_result
           /\ running' = (command # "quit")
           /\ command = "help" =>
                 answer'.out =
                     Printed("Feature Calculator - Interactive CLI")
           /\ command = "last" =>
                 answer'.out =
                     IF last_result = NoneV
                     THEN Printed("No previous calculation result available.")
                     ELSE PrintedValue("Last result: ", last_result)
           /\ command = "quit" =>
                 answer'.out =
                     Printed("Thank you for using Feature Calculator. Goodbye!")]_vars

\* C20 witness: the shell has exited on QUIT, typed in capitals after a
\* calculation
C20_Witness ==
    /\ answer.op = "line"
    /\ answer.line = "QUIT"
    /\ ~running
    /\ ~answer.parsed
    /\ last_result # NoneV

\* the line prints an error: one line that starts as the handlers' do
PrintsError(out) ==
    /\ Len(out) = 1
    /\ out[1].value = NoneV
    /\ \E prefix \in {"Error: ", "Unexpected error: "} :
          /\ Len(out[1].text) > Len(prefix)
          /\ SubSeq(out[1].text, 1, Len(prefix)) = prefix
\* the line is no command and does not calculate: it has fewer than three
\* tokens, an operand that is no number, an operator that is not supported,
\* or a division or a modulo by zero
BadLine(line) ==
    LET parts == Split(Strip(line))
    IN  /\ Strip(line) # ""
        /\ CommandOf(line) = ""
        /\ \/ Len(parts) < 3
           \/ ParseFloat(parts[1]).exc # ""
           \/ ParseFloat(parts[3]).exc # ""
           \/ parts[2] \notin {"+", "-", "*", "/", "**", "%"}
           \/ parts[2] \in {"/", "%"} /\ ParseFloat(parts[3]).f.x = 0

\* C27: a line that fails to parse or to calculate prints an error, leaves
\* last_result as it was and the shell goes on; the end of the input is
\* caught as an error too and the shell goes on; the shell stops on the quit
\* command and on a keyboard interrupt, and on nothing else.
C27_ShellSurvives ==
    [][/\ answer'.op = "line" /\ BadLine(answer'.line) =>
             /\ PrintsError(answer'.out)
             /\ last_result' = last_result
             /\ running /\ running'
       /\ answer'.op = "eof" =>
             /\ PrintsError(answer'.out)
             /\ last_result' = last_result
             /\ running /\ running'
       /\ running /\ ~running' =>
             \/ answer'.op = "line" /\ CommandOf(answer'.line) = "quit"
             \/ answer'.op = "interrupt"]_vars

\* C27 witness: after a calculation, a division by zero has printed its
\* error: the result of the calculation is still there and the shell runs
C27_Witness ==
    /\ answer.op = "line"
    /\ answer.line = "1 / 0"
    /\ answer.out = Printed("Error: Calculation error: Cannot divide by zero")
    /\ last_result # NoneV
    /\ running

(***************************************************************************)
(* config.py: the global Config instance.  A Config instance is an entry   *)
(* of configs, known by its position; _config is None or the reference of  *)
(* an instance.  session records each get_config call since the latest     *)
(* reset_config: its argument, the exception it raised ("" when none) and  *)
(* the reference it returned.                                              *)
(***************************************************************************)
\* the values of the enumeration Environment
Environments == {"development", "staging", "production", "testing"}

\* the env arguments of get_config, and the values of ENVIRONMENT
EnvArguments ==
    {NoneV, StrV(""), StrV("production"), StrV("testing"), StrV("live")}
EnvironValues == {NoneV, StrV(""), StrV("staging"), StrV("prod")}

\* env or os.getenv("ENVIRONMENT", "development")
EnvironmentName(env) ==
    IF env # NoneV /\ env # StrV("") THEN env.s
    ELSE IF environ # NoneV THEN environ.s
    ELSE "development"

\* Config(env): the new instance, or the ValueError of Environment(name)
Config(env) ==
    LET name == EnvironmentName(env)
    IN  IF name \in Environments
        THEN Returns([t |-> "Config", environment |-> name,
                      debug |-> name # "production",
                      testing |-> name = "testing", _settings |-> <<>>])
        ELSE Throws("ValueError",
                    "'" \o name \o "' is not a valid Environment")

\* a get_config that creates an instance at every call
get_configAnew(env) ==
    LET made == Config(env)
    IN  IF made.exc # ""
        THEN [_config |-> _config, configs |-> configs, exc |-> made.exc,
              msg |-> made.msg, value |-> NoneV]
        ELSE [_config |-> Ref(Len(configs) + 1),
              configs |-> Append(configs, made.value), exc |-> "",
              msg |-> "", value |-> Ref(Len(configs) + 1)]
\* get_config(env): the global and the instances after the call, and what
\* the call returned or raised
get_config(env) ==
    LET made == Config(env)
    IN  IF _config # NoneV
        THEN [_config |-> _config, configs |-> configs, exc |-> "",
              msg |-> "", value |-> _config]
        ELSE IF made.exc # ""
        THEN [_config |-> _config, configs |-> configs, exc |-> made.exc,
              msg |-> made.msg, value |-> NoneV]
        ELSE [_config |-> Ref(Len(configs) + 1),
              configs |-> Append(configs, made.value), exc |-> "",
              msg |-> "", value |-> Ref(Len(configs) + 1)]

InitConfig ==
    /\ _config = NoneV
    /\ configs = <<>>
    /\ environ \in EnvironValues
    /\ session = <<>>
    /\ heap = <<>>
    /\ err = <<>>
    /\ called = <<>>
    /\ last = [op |-> "new", v |-> 0, data |-> NoneV, ret |-> "",
               msg |-> "", log |-> <<>>, reads |-> 0]
    /\ NoThreads
    /\ NoCalculator
    /\ NoRetry

NoConfigChange == UNCHANGED <<validatorVars, threadVars, calcVars, retryVars>>

\* a caller calls get_config(env)
GetConfig ==
    \E env \in EnvArguments :
        LET r == get_config(env)
        IN  /\ Len(session) < MaxCalls
            /\ Len(r.configs) <= MaxConfigs
            /\ _config' = r._config
            /\ configs' = r.configs
            /\ session' = Append(session, [env |-> env, exc |-> r.exc,
                                           msg |-> r.msg, value |-> r.value])
            /\ UNCHANGED environ
            /\ NoConfigChange

\* a caller calls reset_config()
ResetConfig ==
    /\ _config' = NoneV
    /\ session' = <<>>
    /\ UNCHANGED <<configs, environ>>
    /\ NoConfigChange

\* a caller that holds an instance calls its set("key", True)
ConfigSet ==
    \E i \in 1..Len(configs) :
        /\ configs' = [configs EXCEPT ![i]._settings = <<"key">>]
        /\ UNCHANGED <<_config, environ, session>>
        /\ NoConfigChange

NextConfig ==
    \/ GetConfig
    \/ ResetConfig
    \/ ConfigSet

SpecConfig == InitConfig /\ [][NextConfig]_vars

\* the get_config calls of the session that returned
Returned(calls) == {k \in 1..Len(calls) : calls[k].exc = ""}
FirstReturned(calls) ==
    CHOOSE k \in Returned(calls) : \A m \in Returned(calls) : k <= m

\* C21 as stated: every get_config call since the latest reset_config
\* returns the same instance, which the first call of them created from its
\* own env, an instance that did not exist before; the later calls create
\* nothing.
C21_GlobalInstance ==
    [][Len(session') > Len(session) =>
          LET n == Len(session')
          IN  /\ \A k \in 1..n : session'[k].exc = ""
              /\ \A k \in 1..n : session'[k].value = session'[1].value
              /\ session'[1].value = _config'
              /\ configs'[_config'.id].environment =
                     EnvironmentName(session'[1].env)
              /\ n = 1 => /\ _config'.id = Len(configs) + 1
                          /\ configs' = Append(configs, configs'[_config'.id])
              /\ n > 1 => configs' = configs /\ _config' = _config]_vars

\* C21 amended: a get_config call raises ValueError when there is no global
\* instance and its env (ENVIRONMENT, or "development", when env is None or
\* empty) names no Environment, and then creates nothing; every call that
\* returns, returns the same instance as the other calls since the latest
\* reset_config, which the first of them that returned created from its own
\* env, an instance that did not exist before; the later calls ignore their
\* env, which may name no Environment, and create nothing.  reset_config
\* unsets the global and destroys no instance.
C21_GlobalInstanceOfReturningCalls ==
    [][/\ Len(session') > Len(session) =>
          LET n == Len(session')
              call == session'[n]
              first == session'[FirstReturned(session')]
          IN  /\ call.exc # "" <=>
                    /\ _config = NoneV
                    /\ EnvironmentName(call.env) \notin Environments
              /\ call.exc # "" =>
                    /\ call.exc = "ValueError"
                    /\ configs' = configs
                    /\ _config' = NoneV
              /\ call.exc = "" =>
                    /\ call.value = first.value
                    /\ call.value = _config'
                    /\ configs'[_config'.id].environment =
                           EnvironmentName(first.env)
                    /\ IF FirstReturned(session') = n
                       THEN /\ _config = NoneV
                            /\ _config'.id = Len(configs) + 1
                            /\ configs' =
                                  Append(configs, configs'[_config'.id])
                       ELSE configs' = configs /\ _config' = _config
       /\ Len(session') < Len(session) => configs' = configs
       /\ _config' = NoneV <=> Returned(session') = {}]_vars

\* C21 witness: after a reset_config, a call with an env that names no
\* Environment has raised, the next call has created the second instance
\* for production, and a third call with that same bad env has returned it
C21_Witness ==
    /\ Len(session) = 3
    /\ session[1].exc = "ValueError"
    /\ session[1].env = StrV("live")
    /\ session[2].env = StrV("production")
    /\ session[3].env = StrV("live")
    /\ session[3].value = Ref(2)
    /\ _config = Ref(2)
    /\ configs[2].environment = "production"
    /\ configs[1].environment # "production"

(***************************************************************************)
(* utils.py: retry_on_exception(func, max_retries, delay).  func is known  *)
(* by what its k-th call does: it returns (the value k), raises an         *)
(* Exception, or raises a BaseException that is no Exception                *)
(* (KeyboardInterrupt, SystemExit).  retry holds the arguments, the locals *)
(* attempt and last_exception (the number of the func call that raised     *)
(* it, 0 for None), the position in the code, the trace of the func calls  *)
(* and time.sleep calls made, and the outcome: the exception that left the *)
(* call (exc, and from, the func call that raised it, 0 when none did) or  *)
(* the value returned.                                                     *)
(***************************************************************************)
Behaviours == {"returns", "Exception", "BaseException"}
Delays == {0 - 1, 0, 1}

\* for attempt in range(max_retries): the loop body runs, or the loop ends
Loop(attempt, max_retries) == IF attempt < max_retries THEN "try" ELSE "raise"

InitRetry ==
    /\ retry \in {[func |-> f, max_retries |-> m, delay |-> d,
                   pc |-> Loop(0, m), attempt |-> 0, last_exception |-> 0,
                   trace |-> <<>>, exc |-> "", from |-> 0, value |-> 0] :
                    f \in [1..MaxRetries -> Behaviours],
                    m \in 0..MaxRetries, d \in Delays}
    /\ heap = <<>>
    /\ err = <<>>
    /\ called = <<>>
    /\ last = [op |-> "new", v |-> 0, data |-> NoneV, ret |-> "",
               msg |-> "", log |-> <<>>, reads |-> 0]
    /\ NoThreads
    /\ NoCalculator
    /\ NoConfig

NoRetryChange ==
    UNCHANGED <<validatorVars, threadVars, calcVars, configVars>>

\* the func calls made so far
Calls(trace) == Len(SelectSeq(trace, LAMBDA e : e.ev = "func"))

\* try: return func(), except Exception as e: last_exception = e
Attempt ==
    LET k == Calls(retry.trace) + 1
        did == retry.func[k]
        trace == Append(retry.trace, [ev |-> "func", arg |-> k])
    IN  /\ retry.pc = "try"
        /\ retry' =
             CASE did = "returns" ->
                    [retry EXCEPT !.trace = trace, !.pc = "done",
                                  !.value = k]
               [] did = "BaseException" ->
                    [retry EXCEPT !.trace = trace, !.pc = "done",
                                  !.exc = did, !.from = k]
               [] OTHER ->
                    [retry EXCEPT
                       !.trace = trace, !.last_exception = k,
                       !.pc = IF retry.attempt < retry.max_retries - 1
                              THEN "sleep"
                              ELSE Loop(retry.attempt + 1,
                                        retry.max_retries),
                       !.attempt = IF retry.attempt < retry.max_retries - 1
                                   THEN @ ELSE @ + 1]
        /\ NoRetryChange

\* time.sleep(delay), which raises ValueError for a negative delay
Sleep ==
    LET trace == Append(retry.trace, [ev |-> "sleep", arg |-> retry.delay])
    IN  /\ retry.pc = "sleep"
        /\ retry' =
             IF retry.delay < 0
             THEN [retry EXCEPT !.trace = trace, !.pc = "done",
                                !.exc = "ValueError"]
             ELSE [retry EXCEPT !.trace = trace,
                                !.attempt = @ + 1,
                                !.pc = Loop(retry.attempt + 1,
                                            retry.max_retries)]
        /\ NoRetryChange

\* raise last_exception, which is a TypeError when last_exception is None
RaiseLast ==
    /\ retry.pc = "raise"
    /\ retry' =
         IF retry.last_exception = 0
         THEN [retry EXCEPT !.pc = "done", !.exc = "TypeError"]
         ELSE [retry EXCEPT !.pc = "done", !.exc = "Exception",
                            !.from = retry.last_exception]
    /\ NoRetryChange

NextRetry ==
    \/ Attempt
    \/ Sleep
    \/ RaiseLast

SpecRetry == InitRetry /\ [][NextRetry]_vars

\* the trace is func calls with one sleep of delay between two of them
Alternates(trace, delay) ==
    \A k \in 1..Len(trace) :
        IF k % 2 = 1 THEN trace[k].ev = "func"
        ELSE trace[k] = [ev |-> "sleep", arg |-> delay]

\* func did not raise a BaseException that is no Exception, and time.sleep
\* took the delay
Retried ==
    /\ retry.exc \notin {"BaseException", "ValueError"}
    /\ retry.pc = "done"

\* C22: when retry_on_exception has ended, for a func that returns or raises
\* Exceptions and a delay that is not negative: func was called until a call
\* returned and at most max_retries times; the call returned what the first
\* func call that returned, the last one made, returned; or every one of
\* max_retries func calls raised and the call raised the exception of the
\* last of them; between two func calls there was one sleep of delay, and
\* none after the last func call.
C22_Retry ==
    Retried =>
        LET n == Calls(retry.trace)
        IN  /\ n <= retry.max_retries
            /\ \A k \in 1..(n - 1) : retry.func[k] = "Exception"
            /\ \/ /\ n >= 1
                  /\ retry.func[n] = "returns"
                  /\ retry.exc = ""
                  /\ retry.value = n
               \/ /\ n >= 1
                  /\ n = retry.max_retries
                  /\ retry.func[n] = "Exception"
                  /\ retry.exc = "Exception"
                  /\ retry.from = n
            /\ Len(retry.trace) = 2 * n - 1
            /\ Alternates(retry.trace, retry.delay)

====
